---- MODULE Spec2Model ----
(***************************************************************************)
(* A model of bitbuf (src/src/lib.rs): the bit cursors BitSlice and        *)
(* BitSliceMut over byte slices, and the staged transfer wrappers Fill,    *)
(* CappedFill, Drain and CappedDrain.                                      *)
(*                                                                         *)
(* A byte is an integer in 0..255 and every u8 operation keeps that width. *)
(* A cursor is a record [kind, data, off, prefix, len]: data is the whole  *)
(* backing buffer, off the number of bytes already dropped from the front  *)
(* of the slice reference, so that the Rust field `data` is the sub-slice  *)
(* data[off..].  A call returns a record [st, res, val, out]: the cursor   *)
(* after the call, the outcome ("Ok", "Insufficient", "Overflow", or       *)
(* "Panic" for an unwrap/expect on Err or an index out of bounds), the     *)
(* returned value and the caller's slice after the call.                   *)
(***************************************************************************)
EXTENDS Integers, Sequences, FiniteSets, TLC

VARIABLES cur, last, ops, wrap, wlast, hist, rt

vars == <<cur, last, ops, wrap, wlast, hist, rt>>

(***************************************************************************)
(* Bounds of the model.                                                    *)
(***************************************************************************)
\* longest backing buffer of a cursor, in bytes
MaxBuf == 2
\* longest caller slice handed to read / write, in bytes
MaxSlice == 2
\* operations per run of the cursor machine and of the wrapper machine
MaxOps == 2
\* longest buffer under a source of fill_from or a sink of drain_into, in bytes
MaxSrc == 1

\* byte values buffers and slices are drawn from: all zeros, all ones and
\* an asymmetric pattern (0b10110000)
ByteVals == {0, 176, 255}

(***************************************************************************)
(* u8 arithmetic.                                                          *)
(***************************************************************************)
RECURSIVE AndN(_, _, _)
AndN(a, b, n) ==
  IF n = 0 THEN 0
  ELSE (a % 2) * (b % 2) + 2 * AndN(a \div 2, b \div 2, n - 1)

\* the table of a & b over bytes
AndTable == [a \in 0..255 |-> [b \in 0..255 |-> AndN(a, b, 8)]]

\* a & b
BitAnd(a, b) == AndTable[a][b]
\* a | b
BitOr(a, b) == a + b - AndTable[a][b]
\* a ^ b
BitXor(a, b) == a + b - 2 * AndTable[a][b]
\* (a << n) as u8: the bits shifted out of the byte are lost
Shl(a, n) == (a * (2 ^ n)) % 256
\* a >> n
Shr(a, n) == a \div (2 ^ n)

Min(a, b) == IF a < b THEN a ELSE b

\* a variant of Clamp that keeps the requested count
Clamp_Requested(bits, re) == bits

\* let bits = if bits > re { re } else { bits }: the bit count of read and
\* write, clamped to remaining()
Clamp(bits, re) == IF bits > re THEN re ELSE bits

\* bit i (0 = most significant) of byte x
BitOf(x, i) == (x \div (2 ^ (7 - i))) % 2
\* bit q of buffer b, counted MSB-first from the start of the buffer
BufBit(b, q) == BitOf(b[(q \div 8) + 1], q % 8)
\* the bits [from, from + k) of buffer b as a sequence of 0/1
BufBits(b, from, k) == [i \in 1..k |-> BufBit(b, from + i - 1)]

\* all byte sequences of length 0..n over ByteVals
SeqsUpTo(n) == UNION {[1..k -> ByteVals] : k \in 0..n}
\* the caller slices of length 0..n holding one byte value throughout
SlicesUpTo(n, vals) == {[i \in 1..k |-> v] : k \in 0..n, v \in vals}

(***************************************************************************)
(* Results of calls.                                                       *)
(***************************************************************************)
Ret(st, res, val, out) == [st |-> st, res |-> res, val |-> val, out |-> out]

(***************************************************************************)
(* BitSlice and BitSliceMut: the state both cursors share.                 *)
(***************************************************************************)
\* BitSlice::new / BitSliceMut::new
NewCursor(kind, data) ==
  [kind |-> kind, data |-> data, off |-> 0, prefix |-> 0, len |-> 0]

\* self.data.len()
DataLen(c) == Len(c.data) - c.off
\* self.data[i]  (the caller checks i < DataLen(c))
DataAt(c, i) == c.data[c.off + i + 1]

\* remaining(): self.data.len() * 8 - self.prefix
remaining(c) == DataLen(c) * 8 - c.prefix

(***************************************************************************)
(* BitSlice (the reader).                                                  *)
(***************************************************************************)
\* a variant of BitSlice::advance that drops bits / 8 bytes even when the
\* prefix wraps
BitSlice_advance_NoCarry(c, bits) ==
  IF bits > remaining(c) THEN Ret(c, "Insufficient", 0, <<>>)
  ELSE LET p1 == c.prefix + (bits % 8)
           p2 == IF p1 >= 8 THEN p1 - 8 ELSE p1
       IN Ret([c EXCEPT !.prefix = p2, !.off = @ + (bits \div 8), !.len = @ + bits],
              "Ok", 0, <<>>)

\* BitSlice::advance.  `get` fails when the range starts past the end of
\* the slice; prefix is then already changed and data is not.
BitSlice_advance(c, bits) ==
  IF bits > remaining(c) THEN Ret(c, "Insufficient", 0, <<>>)
  ELSE LET p1 == c.prefix + (bits % 8)
           drop == IF p1 >= 8 THEN (bits \div 8) + 1 ELSE bits \div 8
           p2 == IF p1 >= 8 THEN p1 - 8 ELSE p1
       IN IF drop > DataLen(c)
          THEN Ret([c EXCEPT !.prefix = p2], "Insufficient", 0, <<>>)
          ELSE Ret([c EXCEPT !.prefix = p2, !.off = @ + drop, !.len = @ + bits],
                   "Ok", 0, <<>>)

\* BitSlice::data_at_offset: up to 8 bits starting `offset` bits after the
\* cursor, left-aligned in the returned byte.  res is "Panic" where the
\* code indexes past the end of data.
data_at_offset(c, offset, size) ==
  LET len == remaining(c)
      o == c.prefix + offset
      offset_bytes == o \div 8
      offset_rem == o % 8
      offset_rem_inv == 8 - offset_rem
      hi == Shl(BitAnd(DataAt(c, offset_bytes), Shr(255, offset_rem)), offset_rem)
      lo == Shr(BitAnd(DataAt(c, offset_bytes + 1), Shl(255, offset_rem_inv)),
                offset_rem_inv)
  IN IF o = 0
     THEN IF len = 0 THEN [res |-> "Insufficient", val |-> 0]
          ELSE [res |-> "Ok", val |-> DataAt(c, 0)]
     ELSE IF len < size THEN [res |-> "Insufficient", val |-> 0]
     ELSE IF offset_bytes >= DataLen(c) THEN [res |-> "Panic", val |-> 0]
     ELSE IF offset_rem = 0 THEN [res |-> "Ok", val |-> DataAt(c, offset_bytes)]
     ELSE IF size + offset_rem <= 8 THEN [res |-> "Ok", val |-> hi]
     ELSE IF offset_bytes + 1 >= DataLen(c) THEN [res |-> "Panic", val |-> 0]
     ELSE [res |-> "Ok", val |-> hi + lo]

\* BitSlice::byte_at_offset
byte_at_offset(c, offset) == data_at_offset(c, offset, 8)

\* the loop of BitSlice::read: dst[i] = byte_at_offset(i * 8).unwrap()
\* for i in 0..bytes; ok is FALSE where the unwrap or the index panics
RECURSIVE ReadBytes(_, _, _, _)
ReadBytes(c, dst, i, bytes) ==
  IF i >= bytes THEN [ok |-> TRUE, dst |-> dst]
  ELSE LET b == byte_at_offset(c, i * 8)
       IN IF b.res # "Ok" \/ i >= Len(dst) THEN [ok |-> FALSE, dst |-> dst]
          ELSE ReadBytes(c, [dst EXCEPT ![i + 1] = b.val], i + 1, bytes)

\* the tail byte BitSlice::read leaves in dst[bytes]:
\* dst[bytes] |= byte; dst[bytes] &= byte
ReadTailMerge(old, byte) == BitAnd(BitOr(old, byte), byte)

\* BitSlice::read
BitSlice_read(c, dst, bits0) ==
  LET re == remaining(c)
      bits == Clamp(bits0, re)
      bytes == bits \div 8
      len == Len(dst)
      rem == bits % 8
      body == ReadBytes(c, dst, 0, bytes)
      t == data_at_offset(c, bytes * 8, rem)
      byte == BitAnd(t.val, Shl(255, 8 - rem))
      d2 == IF rem = 0 THEN body.dst
            ELSE [body.dst EXCEPT ![bytes + 1] = ReadTailMerge(@, byte)]
      a == BitSlice_advance(c, bits)
  IN IF len * 8 < bits THEN Ret(c, "Overflow", 0, dst)
     ELSE IF ~body.ok THEN Ret(c, "Panic", 0, body.dst)
     ELSE IF rem # 0 /\ len < bytes + 1 THEN Ret(c, "Overflow", 0, body.dst)
     ELSE IF rem # 0 /\ t.res # "Ok" THEN Ret(c, "Panic", 0, body.dst)
     ELSE IF a.res # "Ok" THEN Ret(a.st, "Panic", 0, d2)
     ELSE Ret(a.st, "Ok", bits, d2)

\* a variant of BitSlice::read_bool that tests the top bit of the front
\* byte wherever the cursor stands in it
BitSlice_read_bool_FrontBit(c) ==
  LET a == BitSlice_advance(c, 1)
  IN IF remaining(c) = 0 THEN Ret(c, "Insufficient", 0, <<>>)
     ELSE Ret(a.st, "Ok", IF BitAnd(DataAt(c, 0), 128) # 0 THEN 1 ELSE 0, <<>>)

\* BitSlice::read_bool
BitSlice_read_bool(c) ==
  LET b == data_at_offset(c, 0, 1)
      a == BitSlice_advance(c, 1)
  IN IF b.res # "Ok" THEN Ret(c, b.res, 0, <<>>)
     ELSE IF a.res # "Ok" THEN Ret(a.st, "Panic", 0, <<>>)
     ELSE Ret(a.st, "Ok", IF BitAnd(b.val, 128) # 0 THEN 1 ELSE 0, <<>>)

\* BitSlice::read_byte
BitSlice_read_byte(c) ==
  LET b == byte_at_offset(c, 0)
      a == BitSlice_advance(c, 8)
  IN IF b.res # "Ok" THEN Ret(c, b.res, 0, <<>>)
     ELSE IF a.res # "Ok" THEN Ret(a.st, "Panic", 0, <<>>)
     ELSE Ret(a.st, "Ok", b.val, <<>>)

\* BitBuf::read_all (the trait default, which BitSlice inherits): Insufficient
\* when remaining() < bits, else read(dst, bits) with its count dropped
read_all(c, dst, bits) ==
  LET r == BitSlice_read(c, dst, bits)
  IN IF remaining(c) < bits THEN Ret(c, "Insufficient", 0, dst)
     ELSE Ret(r.st, r.res, 0, r.out)

\* BitBuf::read_aligned (the trait default):
\* self.read(dst, dst.len() * 8).expect(..)
BitBuf_read_aligned(c, dst) ==
  LET r == BitSlice_read(c, dst, Len(dst) * 8)
  IN IF r.res = "Overflow" THEN Ret(r.st, "Panic", 0, r.out) ELSE r

\* BitSlice::read_aligned (the override).  `len` is remaining() in bits or
\* dst.len() in bytes; when it is a multiple of 8 the loop fills every byte
\* of dst and the cursor is not advanced.
BitSlice_read_aligned(c, dst) ==
  LET re == remaining(c)
      len == IF Len(dst) * 8 > re THEN re ELSE Len(dst)
      r == BitSlice_read(c, dst, len * 8)
      body == ReadBytes(c, dst, 0, Len(dst))
  IN IF len % 8 # 0
     THEN IF r.res = "Overflow" THEN Ret(r.st, "Panic", 0, r.out) ELSE r
     ELSE IF ~body.ok THEN Ret(c, "Panic", 0, body.dst)
     ELSE Ret(c, "Ok", len, body.dst)

(***************************************************************************)
(* BitSliceMut (the writer).                                               *)
(***************************************************************************)
\* self.data[i] = v
SetData(c, i, v) == [c EXCEPT !.data[c.off + i + 1] = v]

\* a variant of BitSliceMut::advance that rejects bits = remaining() too
BitSliceMut_advance_OffByOne(c, bits) ==
  IF bits >= remaining(c) THEN Ret(c, "Insufficient", 0, <<>>)
  ELSE LET p1 == c.prefix + (bits % 8)
           drop == IF p1 >= 8 THEN (bits \div 8) + 1 ELSE bits \div 8
           p2 == IF p1 >= 8 THEN p1 - 8 ELSE p1
       IN Ret([c EXCEPT !.prefix = p2, !.off = @ + drop, !.len = @ + bits],
              "Ok", 0, <<>>)

\* BitSliceMut::advance.  The slice is replaced by the empty slice before
\* `get_mut`, so a failing get_mut leaves data empty and prefix changed.
BitSliceMut_advance(c, bits) ==
  IF bits > remaining(c) THEN Ret(c, "Insufficient", 0, <<>>)
  ELSE LET p1 == c.prefix + (bits % 8)
           drop == IF p1 >= 8 THEN (bits \div 8) + 1 ELSE bits \div 8
           p2 == IF p1 >= 8 THEN p1 - 8 ELSE p1
       IN IF drop > DataLen(c)
          THEN Ret([c EXCEPT !.prefix = p2, !.off = Len(c.data)],
                   "Insufficient", 0, <<>>)
          ELSE Ret([c EXCEPT !.prefix = p2, !.off = @ + drop, !.len = @ + bits],
                   "Ok", 0, <<>>)

\* a variant of BitSliceMut::write_bool that stores the masked bit with a
\* plain assignment
BitSliceMut_write_bool_Assign(c, item) ==
  LET nb == IF item = 1 THEN Shr(128, c.prefix) ELSE 0
      c1 == SetData(c, 0, nb)
      a == BitSliceMut_advance(c1, 1)
  IN IF DataLen(c) = 0 THEN Ret(c, "Insufficient", 0, <<>>)
     ELSE Ret(a.st, a.res, 0, <<>>)

\* BitSliceMut::write_bool
BitSliceMut_write_bool(c, item) ==
  LET byte == DataAt(c, 0)
      nb == IF item = 1 THEN BitOr(byte, Shr(128, c.prefix))
            ELSE BitAnd(byte, BitXor(255, Shr(128, c.prefix)))
      c1 == SetData(c, 0, nb)
      a == BitSliceMut_advance(c1, 1)
  IN IF DataLen(c) = 0 THEN Ret(c, "Insufficient", 0, <<>>)
     ELSE Ret(a.st, a.res, 0, <<>>)

\* a variant of WriteByteSecond that clears bits and sets none
WriteByteSecond_NoSet(old, item, prefix) ==
  LET inv_prefix == 8 - prefix
  IN BitAnd(old, BitOr(Shl(item, inv_prefix), Shl(255, prefix)))

\* the second byte after BitSliceMut::write_byte at prefix # 0:
\* data[1] |= item << inv_prefix; data[1] &= (item << inv_prefix) | (255 << prefix)
WriteByteSecond(old, item, prefix) ==
  LET inv_prefix == 8 - prefix
  IN BitAnd(BitOr(old, Shl(item, inv_prefix)),
            BitOr(Shl(item, inv_prefix), Shl(255, prefix)))

\* the first byte after BitSliceMut::write_byte at prefix # 0:
\* data[0] |= item >> prefix; data[0] &= (item >> prefix) | (255 << inv_prefix)
WriteByteFirst(old, item, prefix) ==
  LET inv_prefix == 8 - prefix
  IN BitAnd(BitOr(old, Shr(item, prefix)),
            BitOr(Shr(item, prefix), Shl(255, inv_prefix)))

\* a variant of BitSliceMut::write_byte that merges the first byte before
\* it finds that the second is missing
BitSliceMut_write_byte_LateCheck(c, item) ==
  LET c0 == SetData(c, 0, WriteByteFirst(DataAt(c, 0), item, c.prefix))
      c1 == IF c.prefix = 0 THEN SetData(c, 0, item)
            ELSE SetData(c0, 1, WriteByteSecond(DataAt(c, 1), item, c.prefix))
      a == BitSliceMut_advance(c1, 8)
  IN IF DataLen(c) = 0 THEN Ret(c, "Insufficient", 0, <<>>)
     ELSE IF c.prefix # 0 /\ DataLen(c) = 1 THEN Ret(c0, "Insufficient", 0, <<>>)
     ELSE Ret(a.st, a.res, 0, <<>>)

\* BitSliceMut::write_byte
BitSliceMut_write_byte(c, item) ==
  LET c1 == IF c.prefix = 0 THEN SetData(c, 0, item)
            ELSE SetData(SetData(c, 0, WriteByteFirst(DataAt(c, 0), item, c.prefix)),
                         1, WriteByteSecond(DataAt(c, 1), item, c.prefix))
      a == BitSliceMut_advance(c1, 8)
  IN IF DataLen(c) = 0 THEN Ret(c, "Insufficient", 0, <<>>)
     ELSE IF c.prefix # 0 /\ DataLen(c) = 1 THEN Ret(c, "Insufficient", 0, <<>>)
     ELSE Ret(a.st, a.res, 0, <<>>)

\* the first byte after the inherent BitSliceMut::write(item, bits):
\* data[0] |= litem >> prefix; data[0] &= (hitem >> prefix) | (255 << inv_prefix)
\* (at prefix 0: data[0] |= litem; data[0] &= hitem)
WriteTailFirst(old, item, bits, prefix) ==
  LET inv_bits == 8 - bits
      inv_prefix == 8 - prefix
      litem == BitAnd(item, Shl(255, inv_bits))
      hitem == BitOr(item, Shr(255, inv_bits))
  IN IF prefix = 0 THEN BitAnd(BitOr(old, litem), hitem)
     ELSE BitAnd(BitOr(old, Shr(litem, prefix)),
                 BitOr(Shr(hitem, prefix), Shl(255, inv_prefix)))

\* the second byte after the inherent BitSliceMut::write(item, bits):
\* data[1] |= litem << inv_prefix; data[1] &= (hitem << inv_prefix) | (255 << prefix)
WriteTailSecond(old, item, bits, prefix) ==
  LET inv_bits == 8 - bits
      inv_prefix == 8 - prefix
      litem == BitAnd(item, Shl(255, inv_bits))
      hitem == BitOr(item, Shr(255, inv_bits))
  IN BitAnd(BitOr(old, Shl(litem, inv_prefix)),
            BitOr(Shl(hitem, inv_prefix), Shl(255, prefix)))

\* the inherent BitSliceMut::write(item: u8, bits), the tail helper of
\* write.  At prefix # 0 it indexes data[1] whether or not the field
\* reaches the second byte; data[0] is already written when that panics.
write_tail(c, item, bits) ==
  LET c0 == SetData(c, 0, WriteTailFirst(DataAt(c, 0), item, bits, c.prefix))
      c1 == SetData(c0, 1, WriteTailSecond(DataAt(c, 1), item, bits, c.prefix))
      a0 == BitSliceMut_advance(c0, bits)
      a1 == BitSliceMut_advance(c1, bits)
  IN IF DataLen(c) = 0 THEN Ret(c, "Panic", 0, <<>>)
     ELSE IF c.prefix = 0 THEN Ret(a0.st, a0.res, 0, <<>>)
     ELSE IF DataLen(c) = 1 THEN Ret(c0, "Panic", 0, <<>>)
     ELSE Ret(a1.st, a1.res, 0, <<>>)

\* the loop of BitSliceMut::write:
\* self.write_byte(data[i]).expect(..) for i in 0..bytes
RECURSIVE WriteBytes(_, _, _, _)
WriteBytes(c, data, i, bytes) ==
  IF i >= bytes THEN [ok |-> TRUE, st |-> c]
  ELSE IF i >= Len(data) THEN [ok |-> FALSE, st |-> c]
  ELSE LET w == BitSliceMut_write_byte(c, data[i + 1])
       IN IF w.res # "Ok" THEN [ok |-> FALSE, st |-> w.st]
          ELSE WriteBytes(w.st, data, i + 1, bytes)

\* BitSliceMut::write (BitBufMut).  bytes is taken from the requested bit
\* count, before that count is clamped to remaining().
BitSliceMut_write(c, data, bits0) ==
  LET bytes == bits0 \div 8
      re == remaining(c)
      bits == Clamp(bits0, re)
      len == Len(data)
      body == WriteBytes(c, data, 0, bytes)
      rem == bits % 8
      t == write_tail(body.st, data[bytes + 1], rem)
  IN IF bits = 0 THEN Ret(c, "Ok", 0, data)
     ELSE IF len = 0 THEN Ret(c, "Overflow", 0, data)
     ELSE IF len * 8 < bits THEN Ret(c, "Overflow", 0, data)
     ELSE IF ~body.ok THEN Ret(body.st, "Panic", 0, data)
     ELSE IF rem = 0 THEN Ret(body.st, "Ok", bits, data)
     ELSE IF len < bytes + 1 THEN Ret(body.st, "Overflow", 0, data)
     ELSE IF t.res # "Ok" THEN Ret(t.st, "Panic", 0, data)
     ELSE Ret(t.st, "Ok", bits, data)

\* a variant of BitBufMut::write_all that goes straight to write
write_all_Unchecked(c, data, bits) ==
  LET r == BitSliceMut_write(c, data, bits)
  IN Ret(r.st, r.res, 0, r.out)

\* BitBufMut::write_all (the trait default, which BitSliceMut inherits):
\* Insufficient when bits > remaining(), else write(data, bits) with its
\* count dropped
write_all(c, data, bits) ==
  LET r == BitSliceMut_write(c, data, bits)
  IN IF bits > remaining(c) THEN Ret(c, "Insufficient", 0, data)
     ELSE Ret(r.st, r.res, 0, r.out)

(***************************************************************************)
(* Fill, CappedFill, Drain, CappedDrain.  A wrapper is a record            *)
(* [kind, len, cap, buf]; Fill and Drain have no cap field and use the     *)
(* buffer's bit length.  The source of fill_from is any BitBuf and the     *)
(* sink of drain_into any BitBufMut: here a BitSlice and a BitSliceMut.    *)
(***************************************************************************)
\* Fill::new, Drain::new
NewWrapper(kind, buf) == [kind |-> kind, len |-> 0, cap |-> 8 * Len(buf), buf |-> buf]

\* a variant of CappedFill::new / CappedDrain::new without the cap check
NewCapped_Unchecked(kind, buf, cap) ==
  [res |-> "Ok", w |-> [kind |-> kind, len |-> 0, cap |-> cap, buf |-> buf]]

\* CappedFill::new, CappedDrain::new: Overflow when cap > buf.len() * 8
NewCapped(kind, buf, cap) ==
  IF cap > Len(buf) * 8 THEN [res |-> "Overflow", w |-> [kind |-> "none", len |-> 0, cap |-> 0, buf |-> <<>>]]
  ELSE [res |-> "Ok", w |-> [kind |-> kind, len |-> 0, cap |-> cap, buf |-> buf]]

\* the bound the transfer loop compares len with: buf_len (Fill, Drain)
\* or self.cap (CappedFill, CappedDrain)
Capacity(w) == IF w.kind \in {"Fill", "Drain"} THEN Len(w.buf) * 8 ELSE w.cap

\* a variant of FastPath that does not look at the room left
FastPath_NoRoom(rem, room) == rem >= 8

\* the whole-byte branch of the transfer loops:
\* buf.remaining() >= 8 && cap - len >= 8
FastPath(rem, room) == rem >= 8 /\ room >= 8

\* the loop of Fill::fill_from and CappedFill::fill_from.  `fast` is TRUE
\* in the code; with FALSE the loop moves single bits only.
RECURSIVE FillLoop(_, _, _, _, _)
FillLoop(fast, len, cap, target, src) ==
  IF len >= cap THEN [res |-> "Ok", len |-> len, target |-> target, src |-> src]
  ELSE IF fast /\ FastPath(remaining(src), cap - len)
  THEN LET r == BitSlice_read_byte(src)
           w == BitSliceMut_write_byte(target, r.val)
       IN IF r.res # "Ok"
          THEN [res |-> "Panic", len |-> len, target |-> target, src |-> r.st]
          ELSE IF w.res # "Ok"
          THEN [res |-> "Panic", len |-> len, target |-> w.st, src |-> r.st]
          ELSE FillLoop(fast, len + 8, cap, w.st, r.st)
  ELSE LET r == BitSlice_read_bool(src)
           w == BitSliceMut_write_bool(target, r.val)
       IN IF r.res = "Panic"
          THEN [res |-> "Panic", len |-> len, target |-> target, src |-> r.st]
          ELSE IF r.res # "Ok"
          THEN [res |-> "Insufficient", len |-> len, target |-> target, src |-> r.st]
          ELSE IF w.res # "Ok"
          THEN [res |-> "Panic", len |-> len, target |-> w.st, src |-> r.st]
          ELSE FillLoop(fast, len + 1, cap, w.st, r.st)

\* Fill::fill_from and CappedFill::fill_from, with the loop given
FillWith(fast, w, src) ==
  LET a == BitSliceMut_advance(NewCursor("BitSliceMut", w.buf), w.len)
      l == FillLoop(fast, w.len, Capacity(w), a.st, src)
  IN IF a.res # "Ok" THEN [res |-> "Panic", w |-> w, io |-> src]
     ELSE [res |-> l.res, w |-> [w EXCEPT !.len = l.len, !.buf = l.target.data],
           io |-> l.src]

\* Fill::fill_from, CappedFill::fill_from
fill_from(w, src) == FillWith(TRUE, w, src)

\* the loop of Drain::drain_into and CappedDrain::drain_into
RECURSIVE DrainLoop(_, _, _, _, _)
DrainLoop(fast, len, cap, target, sink) ==
  IF len >= cap THEN [res |-> "Ok", len |-> len, sink |-> sink]
  ELSE IF fast /\ FastPath(remaining(sink), cap - len)
  THEN LET r == BitSlice_read_byte(target)
           w == BitSliceMut_write_byte(sink, r.val)
       IN IF r.res # "Ok" THEN [res |-> "Panic", len |-> len, sink |-> sink]
          ELSE IF w.res # "Ok" THEN [res |-> "Panic", len |-> len, sink |-> w.st]
          ELSE DrainLoop(fast, len + 8, cap, r.st, w.st)
  ELSE LET r == BitSlice_read_bool(target)
           w == BitSliceMut_write_bool(sink, r.val)
       IN IF r.res # "Ok" THEN [res |-> "Panic", len |-> len, sink |-> sink]
          ELSE IF w.res # "Ok"
          THEN [res |-> "Insufficient", len |-> len, sink |-> w.st]
          ELSE DrainLoop(fast, len + 1, cap, r.st, w.st)

\* a variant of DrainWith that counts the bit the sink refused
DrainWith_CountsRefused(fast, w, sink) ==
  LET a == BitSlice_advance(NewCursor("BitSlice", w.buf), w.len)
      l == DrainLoop(fast, w.len, Capacity(w), a.st, sink)
      n == IF l.res = "Insufficient" THEN l.len + 1 ELSE l.len
  IN IF a.res # "Ok" THEN [res |-> "Panic", w |-> w, io |-> sink]
     ELSE [res |-> l.res, w |-> [w EXCEPT !.len = n], io |-> l.sink]

\* Drain::drain_into and CappedDrain::drain_into, with the loop given
DrainWith(fast, w, sink) ==
  LET a == BitSlice_advance(NewCursor("BitSlice", w.buf), w.len)
      l == DrainLoop(fast, w.len, Capacity(w), a.st, sink)
  IN IF a.res # "Ok" THEN [res |-> "Panic", w |-> w, io |-> sink]
     ELSE [res |-> l.res, w |-> [w EXCEPT !.len = l.len], io |-> l.sink]

\* Drain::drain_into, CappedDrain::drain_into
drain_into(w, sink) == DrainWith(TRUE, w, sink)

(***************************************************************************)
(* The cursor machine: one cursor, a BitSlice or a BitSliceMut over a      *)
(* buffer, driven by any sequence of at most MaxOps calls.  `last` records *)
(* the latest call: its arguments, the cursor before it and what it        *)
(* returned.  A panic ends the run.                                        *)
(***************************************************************************)
\* largest bit count handed to a call: one more than any cursor holds
MaxBits == 8 * MaxBuf + 1

NoCall ==
  [op |-> "none", bits |-> 0, arg |-> <<>>, pre |-> NewCursor("none", <<>>),
   res |-> "Ok", val |-> 0, out |-> <<>>]

NoWrap == [kind |-> "none", len |-> 0, cap |-> 0, buf |-> <<>>]

NoWCall ==
  [op |-> "none", cap |-> 0, pre |-> NoWrap, arg |-> NewCursor("none", <<>>),
   post |-> NewCursor("none", <<>>), res |-> "Ok"]

NoHist == [buf0 |-> <<>>, fed |-> <<>>, calls |-> 0]

NoRt == [pc |-> "none"]

Call(op, bits, arg, r) ==
  /\ ops < MaxOps
  /\ last.res # "Panic"
  /\ cur' = r.st
  /\ last' = [op |-> op, bits |-> bits, arg |-> arg, pre |-> cur,
              res |-> r.res, val |-> r.val, out |-> r.out]
  /\ ops' = ops + 1
  /\ UNCHANGED <<wrap, wlast, hist, rt>>

ReaderAdvance ==
  /\ cur.kind = "BitSlice"
  /\ \E n \in 0..MaxBits : Call("advance", n, <<>>, BitSlice_advance(cur, n))

ReaderReadBool ==
  /\ cur.kind = "BitSlice"
  /\ Call("read_bool", 1, <<>>, BitSlice_read_bool(cur))

ReaderReadByte ==
  /\ cur.kind = "BitSlice"
  /\ Call("read_byte", 8, <<>>, BitSlice_read_byte(cur))

ReaderRead ==
  /\ cur.kind = "BitSlice"
  /\ \E dst \in SlicesUpTo(MaxSlice, {0, 255}), n \in 0..MaxBits :
       Call("read", n, dst, BitSlice_read(cur, dst, n))

ReaderReadAll ==
  /\ cur.kind = "BitSlice"
  /\ \E dst \in SlicesUpTo(MaxSlice, {0, 255}), n \in 0..MaxBits :
       Call("read_all", n, dst, read_all(cur, dst, n))

ReaderReadAligned ==
  /\ cur.kind = "BitSlice"
  /\ \E dst \in SlicesUpTo(MaxSlice, {0, 255}) :
       Call("read_aligned", 8 * Len(dst), dst, BitSlice_read_aligned(cur, dst))

WriterAdvance ==
  /\ cur.kind = "BitSliceMut"
  /\ \E n \in 0..MaxBits : Call("advance", n, <<>>, BitSliceMut_advance(cur, n))

WriterWriteBool ==
  /\ cur.kind = "BitSliceMut"
  /\ \E b \in {0, 1} : Call("write_bool", 1, <<b>>, BitSliceMut_write_bool(cur, b))

WriterWriteByte ==
  /\ cur.kind = "BitSliceMut"
  /\ \E v \in ByteVals : Call("write_byte", 8, <<v>>, BitSliceMut_write_byte(cur, v))

WriterWrite ==
  /\ cur.kind = "BitSliceMut"
  /\ \E src \in SlicesUpTo(MaxSlice, ByteVals), n \in 0..MaxBits :
       Call("write", n, src, BitSliceMut_write(cur, src, n))

WriterWriteAll ==
  /\ cur.kind = "BitSliceMut"
  /\ \E src \in SlicesUpTo(MaxSlice, ByteVals), n \in 0..MaxBits :
       Call("write_all", n, src, write_all(cur, src, n))

Init ==
  /\ cur \in {NewCursor(k, d) : k \in {"BitSlice", "BitSliceMut"}, d \in SeqsUpTo(MaxBuf)}
  /\ last = NoCall
  /\ ops = 0
  /\ wrap = NoWrap
  /\ wlast = NoWCall
  /\ hist = NoHist
  /\ rt = NoRt

Next ==
  \/ ReaderAdvance
  \/ ReaderReadBool
  \/ ReaderReadByte
  \/ ReaderRead
  \/ WriterAdvance
  \/ WriterWriteBool
  \/ WriterWriteByte
  \/ WriterWrite
  \/ ReaderReadAll
  \/ ReaderReadAligned
  \/ WriterWriteAll

Spec == Init /\ [][Next]_vars

(***************************************************************************)
(* Claims about the cursors, over the latest call of the cursor machine.   *)
(***************************************************************************)
\* the latest call was `op`, made on a cursor of the given kind
IsCall(op, kind) == last.op = op /\ last.pre.kind = kind

\* the cursor's state is what it was before the latest call
CursorUnchanged == cur = last.pre

\* C2: write_byte(v) on a BitSliceMut at prefix p in 1..7 with at least 8
\* bits remaining succeeds, makes the 8 bits at [p, p+8) equal to v, and
\* leaves the top p bits of the first byte and the low 8-p bits of the
\* second byte as they were.
C2_WriteByteNonDisturbance ==
  (IsCall("write_byte", "BitSliceMut") /\ last.pre.prefix \in 1..7
     /\ remaining(last.pre) >= 8)
  => LET p == last.pre.prefix
         at == 8 * last.pre.off
     IN /\ last.res = "Ok"
        /\ BufBits(cur.data, at + p, 8) = BufBits(last.arg, 0, 8)
        /\ BufBits(cur.data, at, p) = BufBits(last.pre.data, at, p)
        /\ BufBits(cur.data, at + 8 + p, 8 - p)
             = BufBits(last.pre.data, at + 8 + p, 8 - p)

\* C4: read(dst, k) / write(src, k) with k = remaining() > 0 and a slice of
\* at least ceil(k/8) bytes succeeds, returns k and leaves remaining() = 0.
C4_ExactFit ==
  (last.op \in {"read", "write"} /\ remaining(last.pre) > 0
     /\ last.bits = remaining(last.pre) /\ 8 * Len(last.arg) >= last.bits)
  => (last.res = "Ok" /\ last.val = last.bits /\ remaining(cur) = 0)

\* C5: on both cursors, advance(n) with n = remaining() succeeds and leaves
\* remaining() = 0, and advance(n) with n > remaining() returns
\* Insufficient and leaves prefix, the slice view and len unchanged.
C5_AdvanceBoundary ==
  last.op = "advance"
  => /\ last.bits = remaining(last.pre)
          => (last.res = "Ok" /\ remaining(cur) = 0)
     /\ last.bits > remaining(last.pre)
          => (last.res = "Insufficient" /\ CursorUnchanged)

\* C5 witness: an advance past the end of a writer that stands inside a byte
C5_Witness ==
  /\ IsCall("advance", "BitSliceMut")
  /\ last.pre.prefix # 0
  /\ last.bits > remaining(last.pre)
  /\ last.res = "Insufficient"

\* C6 as stated: read / write with a slice shorter than ceil(bit_count/8)
\* bytes returns Overflow and moves no bits, whatever remaining() is.
C6_OverflowUnclamped ==
  (last.op \in {"read", "write"} /\ 8 * Len(last.arg) < last.bits)
  => (last.res = "Overflow" /\ CursorUnchanged /\ last.out = last.arg)

\* C6 amended: read / write return Overflow exactly when the slice is
\* shorter than ceil(min(bit_count, remaining())/8) bytes, and then the
\* cursor, the backing buffer and the slice are unchanged.
C6_OverflowClamped ==
  last.op \in {"read", "write"}
  => LET short == 8 * Len(last.arg) < Min(last.bits, remaining(last.pre))
     IN /\ (last.res = "Overflow") <=> short
        /\ short => (CursorUnchanged /\ last.out = last.arg)

\* C6 witness: a cursor inside a byte is asked for more bits than it
\* holds, and the slice is too short even for the bits it holds
C6_Witness ==
  /\ last.op \in {"read", "write"}
  /\ last.res = "Overflow"
  /\ last.pre.prefix # 0
  /\ last.bits > remaining(last.pre)

\* C10: read(dst, bits) with rem = bits mod 8 # 0 puts the rem trailing bits
\* into the top rem bits of dst[bits/8] and leaves the low 8-rem bits of
\* that byte as they were.
C10_ReadTailKeepsLowBits ==
  (IsCall("read", "BitSlice") /\ last.bits <= remaining(last.pre)
     /\ last.bits % 8 # 0 /\ 8 * Len(last.arg) >= last.bits)
  => LET rem == last.bits % 8
         at == 8 * (last.bits \div 8)
         from == 8 * last.pre.off + last.pre.prefix
     IN /\ last.res = "Ok"
        /\ BufBits(last.out, at, rem) = BufBits(last.pre.data, from + at, rem)
        /\ BufBits(last.out, at + rem, 8 - rem) = BufBits(last.arg, at + rem, 8 - rem)

\* C11: read_all(dst, bits) / write_all(src, bits) return Insufficient
\* exactly when bits > remaining(), return Overflow when bits <= remaining()
\* and the slice holds fewer than bits bits (and only then), and whenever
\* they return Insufficient or Overflow the cursor's prefix, slice view and
\* len, the backing buffer and the caller's slice are what they were.
C11_AllOrNothing ==
  last.op \in {"read_all", "write_all"}
  => LET re == remaining(last.pre)
         short == 8 * Len(last.arg) < last.bits
     IN /\ (last.res = "Insufficient") <=> (last.bits > re)
        /\ (last.bits <= re /\ short) => last.res = "Overflow"
        /\ last.res = "Overflow" => short
        /\ last.res \in {"Insufficient", "Overflow"}
             => (CursorUnchanged /\ last.out = last.arg)

\* C11 witness: a write_all on a writer inside a byte, over a buffer that is
\* not zero, that asks for one bit more than the writer holds, with a slice
\* long enough and different from the buffer
C11_Witness ==
  /\ IsCall("write_all", "BitSliceMut")
  /\ last.pre.prefix # 0
  /\ last.bits = remaining(last.pre) + 1
  /\ 8 * Len(last.arg) >= last.bits
  /\ last.arg[1] = 0
  /\ last.pre.data[1] = 255
  /\ last.res = "Insufficient"

\* the latest call was write_byte(0xFF) on a writer over a zeroed 2-byte
\* buffer standing at prefix 4
WriterScenario ==
  /\ IsCall("write_byte", "BitSliceMut")
  /\ last.pre.data = <<0, 0>>
  /\ last.pre.off = 0
  /\ last.pre.prefix = 4
  /\ last.arg = <<255>>

\* C12 as stated: in the writer scenario the first byte becomes 0b00001111,
\* the second 0b11110000 and len() is 8, the bits written through the cursor.
C12_WriterScenarioLen8 ==
  WriterScenario
  => (last.res = "Ok" /\ cur.data = <<15, 240>> /\ cur.len = 8)

\* C12 amended: in the writer scenario the first byte becomes 0b00001111,
\* the second 0b11110000 and len() is 12; len() of a writer counts every bit
\* the cursor has moved past, skipped by advance or written, so it is
\* always the bit position 8 * (bytes dropped) + prefix.
C12_WriterScenarioLen12 ==
  /\ WriterScenario
       => (last.res = "Ok" /\ cur.data = <<15, 240>> /\ cur.len = 12)
  /\ cur.kind = "BitSliceMut" => cur.len = 8 * cur.off + cur.prefix

\* C12 witness: the writer scenario, reached by advance(4), has run
C12_Witness ==
  /\ WriterScenario
  /\ last.pre.len = 4
  /\ last.res = "Ok"
  /\ cur.prefix = 4
  /\ cur.off = 1

\* the bits the cursor had consumed before the latest call
Consumed == 8 * last.pre.off + last.pre.prefix

\* C13: on a BitSlice that has consumed q bits of buffer B, read_bool (with
\* a bit left) returns bit q of B counted MSB-first and advances by 1, and
\* read_byte (with remaining() >= 8) returns the byte made of bits q..q+8 of
\* B and advances by 8; over [0b10110000] the reads at q = 0, 1, 2, 3 return
\* true, false, true, true and the last leaves remaining() = 4.
C13_MsbFirstReads ==
  /\ (IsCall("read_bool", "BitSlice") /\ remaining(last.pre) >= 1)
       => /\ last.res = "Ok"
          /\ last.val = BufBit(last.pre.data, Consumed)
          /\ cur.data = last.pre.data
          /\ 8 * cur.off + cur.prefix = Consumed + 1
          /\ remaining(cur) = remaining(last.pre) - 1
          /\ (last.pre.data = <<176>> /\ Consumed <= 3)
               => last.val = <<1, 0, 1, 1>>[Consumed + 1]
          /\ (last.pre.data = <<176>> /\ Consumed = 3) => remaining(cur) = 4
  /\ (IsCall("read_byte", "BitSlice") /\ remaining(last.pre) >= 8)
       => /\ last.res = "Ok"
          /\ BufBits(<<last.val>>, 0, 8) = BufBits(last.pre.data, Consumed, 8)
          /\ cur.data = last.pre.data
          /\ 8 * cur.off + cur.prefix = Consumed + 8
          /\ remaining(cur) = remaining(last.pre) - 8

\* C13 witness: the fourth bit of [0b10110000] is read as true
C13_Witness ==
  /\ IsCall("read_bool", "BitSlice")
  /\ last.pre.data = <<176>>
  /\ Consumed = 3
  /\ last.val = 1
  /\ remaining(cur) = 4

\* the bits of buffer b outside [from, from + k) are those of buffer a
SameOutside(a, b, from, k) ==
  /\ Len(a) = Len(b)
  /\ \A q \in 0..(8 * Len(a) - 1) :
       (q < from \/ q >= from + k) => BufBit(a, q) = BufBit(b, q)

\* C14: write_bool(b) on a BitSliceMut with a bit left, at any prefix and
\* over any content, makes the bit at the cursor equal to b, changes no
\* other bit of the buffer and advances the cursor by 1 bit.
C14_WriteBoolSingleBit ==
  (IsCall("write_bool", "BitSliceMut") /\ remaining(last.pre) >= 1)
  => /\ last.res = "Ok"
     /\ BufBit(cur.data, Consumed) = last.arg[1]
     /\ SameOutside(last.pre.data, cur.data, Consumed, 1)
     /\ 8 * cur.off + cur.prefix = Consumed + 1
     /\ remaining(cur) = remaining(last.pre) - 1

\* C14 witness: a bit is cleared inside a byte whose other bits are set
C14_Witness ==
  /\ IsCall("write_bool", "BitSliceMut")
  /\ last.pre.prefix # 0
  /\ last.arg = <<0>>
  /\ DataAt(last.pre, 0) = 255
  /\ last.res = "Ok"

\* C15: write(src, r) on a BitSliceMut with r in 1..7 and remaining() >= r,
\* at any prefix and over any content, makes the r bits at the cursor equal
\* to the top r bits of src[0] and changes no bit outside that span.
C15_SubByteFieldWrite ==
  (IsCall("write", "BitSliceMut") /\ last.bits \in 1..7
     /\ remaining(last.pre) >= last.bits /\ Len(last.arg) >= 1)
  => /\ last.res = "Ok"
     /\ BufBits(cur.data, Consumed, last.bits) = BufBits(last.arg, 0, last.bits)
     /\ SameOutside(last.pre.data, cur.data, Consumed, last.bits)

\* C16: read_bool / write_bool with remaining() = 0 and read_byte /
\* write_byte with remaining() < 8 return Insufficient and leave the backing
\* buffer, prefix, the slice view and len unchanged.
C16_SingleFieldFailureAtomic ==
  /\ (last.op \in {"read_bool", "write_bool"} /\ remaining(last.pre) = 0)
       => (last.res = "Insufficient" /\ CursorUnchanged)
  /\ (last.op \in {"read_byte", "write_byte"} /\ remaining(last.pre) < 8)
       => (last.res = "Insufficient" /\ CursorUnchanged)

\* C16 witness: write_byte on a writer inside its last byte, with a value
\* whose bits differ from the byte's
C16_Witness ==
  /\ IsCall("write_byte", "BitSliceMut")
  /\ last.pre.prefix # 0
  /\ DataLen(last.pre) = 1
  /\ DataAt(last.pre, 0) = 0
  /\ last.arg = <<255>>
  /\ last.res = "Insufficient"

\* C17: in every state of a cursor prefix is in 0..7 and
\* remaining() = 8 * data.len() - prefix is not negative; a successful
\* advance(n) sets prefix to (old prefix + n) mod 8, drops
\* (old prefix + n) div 8 bytes from the front of the slice and reduces
\* remaining() by n.
C17_CursorPosition ==
  /\ cur.kind \in {"BitSlice", "BitSliceMut"}
       => /\ cur.prefix \in 0..7
          /\ cur.off \in 0..Len(cur.data)
          /\ 8 * DataLen(cur) - cur.prefix >= 0
  /\ (last.op = "advance" /\ last.res = "Ok")
       => /\ cur.prefix = (last.pre.prefix + last.bits) % 8
          /\ cur.off = last.pre.off + ((last.pre.prefix + last.bits) \div 8)
          /\ remaining(cur) = remaining(last.pre) - last.bits
          /\ cur.data = last.pre.data

\* C17 witness: an advance of a reader that carries into the next byte
C17_Witness ==
  /\ IsCall("advance", "BitSlice")
  /\ last.res = "Ok"
  /\ last.pre.prefix + (last.bits % 8) >= 8
  /\ last.bits >= 8

\* C19: BitSlice::read_aligned(dst) does not panic and leaves the cursor,
\* dst and the returned count as the trait default read(dst, 8 * dst.len())
\* does: min(8 * dst.len(), remaining()) bits copied and consumed.
C19_ReadAlignedMatchesDefault ==
  IsCall("read_aligned", "BitSlice")
  => LET d == BitBuf_read_aligned(last.pre, last.arg)
         n == Min(8 * Len(last.arg), remaining(last.pre))
     IN /\ last.res = "Ok"
        /\ cur = d.st
        /\ last.out = d.out
        /\ last.val = d.val
        /\ last.val = n
        /\ remaining(cur) = remaining(last.pre) - n
        /\ BufBits(last.out, 0, n) = BufBits(last.pre.data, Consumed, n)

\* C20: write(src, bits) on a BitSliceMut with bits > remaining() and src
\* holding at least bits bits does not panic, writes the first remaining()
\* bits of src, returns Ok(remaining()) and leaves remaining() = 0.
C20_WriteShortfallClamped ==
  (IsCall("write", "BitSliceMut") /\ last.bits > remaining(last.pre)
     /\ 8 * Len(last.arg) >= last.bits)
  => LET re == remaining(last.pre)
     IN /\ last.res = "Ok"
        /\ last.val = re
        /\ remaining(cur) = 0
        /\ BufBits(cur.data, Consumed, re) = BufBits(last.arg, 0, re)

(***************************************************************************)
(* The wrapper machine: a buffer is wrapped by one of the four             *)
(* constructors and then driven by at most MaxOps fill_from / drain_into   *)
(* calls, each with a source or sink of its own.  `wlast` records the      *)
(* latest call, `hist` the buffer as it was handed to the constructor and  *)
(* the source bits delivered so far.                                       *)
(***************************************************************************)
\* a cursor as a caller may hand it over: created and advanced by a bits
Positioned(kind, d, a) ==
  IF kind = "BitSlice" THEN BitSlice_advance(NewCursor(kind, d), a).st
  ELSE BitSliceMut_advance(NewCursor(kind, d), a).st

\* the sources of fill_from
Sources ==
  UNION {{Positioned("BitSlice", d, a) : a \in 0..(8 * Len(d))} : d \in SeqsUpTo(MaxSrc)}

\* the sinks of drain_into
Sinks ==
  UNION {{Positioned("BitSliceMut", d, a) : a \in 0..(8 * Len(d))} :
           d \in SlicesUpTo(MaxSrc, {0, 255})}

\* the bits a cursor still holds
Pending(c) == BufBits(c.data, 8 * c.off + c.prefix, remaining(c))

Constructed(kind, cap, r) ==
  /\ wrap.kind = "none"
  /\ wlast.op = "none"
  /\ wrap' = r.w
  /\ wlast' = [op |-> "new", cap |-> cap, pre |-> wrap, arg |-> NewCursor("none", <<>>),
               post |-> NewCursor("none", <<>>), res |-> r.res]
  /\ UNCHANGED <<cur, last, ops, hist, rt>>

NewFill ==
  Constructed("Fill", 0, [res |-> "Ok", w |-> NewWrapper("Fill", hist.buf0)])

NewDrain ==
  Constructed("Drain", 0, [res |-> "Ok", w |-> NewWrapper("Drain", hist.buf0)])

NewCappedFill ==
  \E cap \in 0..(8 * Len(hist.buf0) + 1) :
    Constructed("CappedFill", cap, NewCapped("CappedFill", hist.buf0, cap))

NewCappedDrain ==
  \E cap \in 0..(8 * Len(hist.buf0) + 1) :
    Constructed("CappedDrain", cap, NewCapped("CappedDrain", hist.buf0, cap))

Transfer(op, io, r) ==
  /\ hist.calls < MaxOps
  /\ wlast.res # "Panic"
  /\ wrap' = r.w
  /\ wlast' = [op |-> op, cap |-> 0, pre |-> wrap, arg |-> io, post |-> r.io,
               res |-> r.res]
  /\ hist' = [hist EXCEPT !.calls = @ + 1,
                          !.fed = IF op = "fill_from" THEN @ \o Pending(io) ELSE @]
  /\ UNCHANGED <<cur, last, ops, rt>>

FillFrom ==
  /\ wrap.kind \in {"Fill", "CappedFill"}
  /\ \E src \in Sources : Transfer("fill_from", src, fill_from(wrap, src))

DrainInto ==
  /\ wrap.kind \in {"Drain", "CappedDrain"}
  /\ \E sink \in Sinks : Transfer("drain_into", sink, drain_into(wrap, sink))

InitWrap ==
  /\ hist \in {[buf0 |-> b, fed |-> <<>>, calls |-> 0] : b \in SeqsUpTo(MaxBuf)}
  /\ wrap = NoWrap
  /\ wlast = NoWCall
  /\ cur = NewCursor("none", <<>>)
  /\ last = NoCall
  /\ ops = 0
  /\ rt = NoRt

NextWrap ==
  \/ NewFill
  \/ NewDrain
  \/ NewCappedFill
  \/ NewCappedDrain
  \/ FillFrom
  \/ DrainInto

SpecWrap == InitWrap /\ [][NextWrap]_vars

(***************************************************************************)
(* Claims about the wrappers, over the latest call of the wrapper machine. *)
(***************************************************************************)
\* the byte whose bits, MSB first, are bits[from + 1 .. from + 8]
ByteOfBits(bits, from) ==
  bits[from + 1] * 128 + bits[from + 2] * 64 + bits[from + 3] * 32
    + bits[from + 4] * 16 + bits[from + 5] * 8 + bits[from + 6] * 4
    + bits[from + 7] * 2 + bits[from + 8]

\* a BitSlice that holds exactly the given bits: a buffer with the bits at
\* its end, advanced past the padding in front of them
SourceOf(bits) ==
  LET pad == (8 - (Len(bits) % 8)) % 8
      all == [i \in 1..pad |-> 0] \o bits
      d == [i \in 1..(Len(all) \div 8) |-> ByteOfBits(all, 8 * (i - 1))]
  IN Positioned("BitSlice", d, pad)

IsFill == wlast.op = "fill_from"
IsDrain == wlast.op = "drain_into"

\* C3: delivering the source bits through a sequence of fill_from calls
\* leaves the same buffer and the same len as one fill_from call whose
\* source holds all of them.
C3_Resumable ==
  IsFill
  => LET one == fill_from([wrap EXCEPT !.len = 0, !.buf = hist.buf0],
                          SourceOf(hist.fed))
     IN wrap.buf = one.w.buf /\ wrap.len = one.w.len

\* C7: fill_from with a source of r bits transfers min(r, C - len) bits
\* and consumes as many from the source, writing from bit offset len on;
\* it returns Ok iff len reaches C and Insufficient otherwise; with
\* len = C it returns Ok and leaves the source alone.
C7_FillOutcome ==
  IsFill
  => LET r == remaining(wlast.arg)
         C == Capacity(wlast.pre)
         n == Min(r, C - wlast.pre.len)
     IN /\ wlast.res \in {"Ok", "Insufficient"}
        /\ wrap.len = wlast.pre.len + n
        /\ wlast.post = BitSlice_advance(wlast.arg, n).st
        /\ remaining(wlast.post) = r - n
        /\ (wlast.res = "Ok") <=> (wrap.len = C)
        /\ wlast.pre.len = C => (wlast.res = "Ok" /\ wlast.post = wlast.arg)
        /\ BufBits(wrap.buf, 0, wlast.pre.len) = BufBits(wlast.pre.buf, 0, wlast.pre.len)
        /\ Len(wrap.buf) = Len(wlast.pre.buf)

\* C7 witness: a call that resumes inside a byte, moves a whole byte and
\* runs out of source bits
C7_Witness ==
  /\ IsFill
  /\ wlast.res = "Insufficient"
  /\ wlast.pre.len % 8 # 0
  /\ wrap.len = wlast.pre.len + 8

\* C8: fill_from and drain_into end with the same destination bits, the
\* same len and the same result as the transfer that moves the same bits
\* one at a time with read_bool / write_bool.
C8_FastPathEquivalent ==
  /\ IsFill
       => LET ref == FillWith(FALSE, wlast.pre, wlast.arg)
          IN wrap = ref.w /\ wlast.res = ref.res
  /\ IsDrain
       => LET ref == DrainWith(FALSE, wlast.pre, wlast.arg)
          IN wrap = ref.w /\ wlast.res = ref.res /\ wlast.post.data = ref.io.data

\* C9: 0 <= len <= cap <= 8 * buf.len() in every state of a wrapper, len
\* never decreases, and CappedFill::new / CappedDrain::new return Overflow
\* when cap > 8 * buf.len().
C9_CounterInvariant ==
  /\ wrap.kind # "none"
       => /\ 0 <= wrap.len
          /\ wrap.len <= Capacity(wrap)
          /\ Capacity(wrap) <= 8 * Len(wrap.buf)
          /\ wrap.kind \in {"Fill", "Drain"} => Capacity(wrap) = 8 * Len(wrap.buf)
  /\ (IsFill \/ IsDrain) => wrap.len >= wlast.pre.len
  /\ wlast.op = "new"
       => IF wlast.cap > 8 * Len(hist.buf0)
          THEN wlast.res = "Overflow" /\ wrap.kind = "none"
          ELSE wlast.res = "Ok" /\ wrap.kind # "none" /\ wrap.len = 0

\* C9 witness: a capped drain that resumed and stopped at a cap inside a byte
C9_Witness ==
  /\ IsDrain
  /\ wrap.kind = "CappedDrain"
  /\ wlast.pre.len > 0
  /\ wrap.len > wlast.pre.len
  /\ wrap.len = wrap.cap
  /\ wrap.cap % 8 # 0
  /\ wrap.cap < 8 * Len(wrap.buf)

\* C18: drain_into with counter len, capacity C and a sink with s bits of
\* room never modifies the owned buffer, raises len by min(s, C - len),
\* returns Ok iff len reaches C and Insufficient otherwise, and hands the
\* sink the buffer's bits from len on, in order (read off a zeroed sink);
\* a refused bit is not counted, so the next call starts with it.
C18_DrainOutcome ==
  IsDrain
  => LET s == remaining(wlast.arg)
         C == Capacity(wlast.pre)
         n == Min(s, C - wlast.pre.len)
         at == 8 * wlast.arg.off + wlast.arg.prefix
     IN /\ wlast.res \in {"Ok", "Insufficient"}
        /\ wrap.buf = wlast.pre.buf
        /\ wrap.buf = hist.buf0
        /\ wrap.len = wlast.pre.len + n
        /\ (wlast.res = "Ok") <=> (wrap.len = C)
        /\ (wlast.res = "Insufficient") <=> (s < C - wlast.pre.len)
        /\ remaining(wlast.post) = s - n
        /\ (\A i \in 1..Len(wlast.arg.data) : wlast.arg.data[i] = 0)
             => BufBits(wlast.post.data, at, n) = BufBits(wlast.pre.buf, wlast.pre.len, n)

\* C18 witness: a drain that resumed inside a byte, was refused a bit by a
\* full sink and left len short of the capacity
C18_Witness ==
  /\ IsDrain
  /\ wlast.res = "Insufficient"
  /\ wlast.pre.len % 8 # 0
  /\ wrap.len > wlast.pre.len
  /\ remaining(wlast.post) = 0
  /\ wrap.len < Capacity(wrap)

(***************************************************************************)
(* The round trip: k bits are read from buffer B at bit position p into a  *)
(* temporary slice, written at position p of a zeroed buffer as long as B, *)
(* and read back from there.  A step that does not return Ok ends the run  *)
(* in "failed".                                                            *)
(***************************************************************************)
\* n zero bytes
Zeroed(n) == [i \in 1..n |-> 0]

\* the bytes needed to hold k bits
BytesFor(k) == (k + 7) \div 8

RtStep(from, to, r, field, value) ==
  /\ rt.pc = from
  /\ rt' = IF r.res = "Ok" /\ r.val = rt.k
           THEN [rt EXCEPT !.pc = to, ![field] = value]
           ELSE [rt EXCEPT !.pc = "failed", !.res = r.res]
  /\ UNCHANGED <<cur, last, ops, wrap, wlast, hist>>

\* BitSlice::new(B), advance(p), read(tmp, k)
RtRead ==
  LET r == BitSlice_read(Positioned("BitSlice", rt.B, rt.p), Zeroed(BytesFor(rt.k)), rt.k)
  IN RtStep("start", "read", r, "tmp", r.out)

\* BitSliceMut::new(zeroed), advance(p), write(tmp, k)
RtWrite ==
  LET r == BitSliceMut_write(Positioned("BitSliceMut", Zeroed(Len(rt.B)), rt.p),
                             rt.tmp, rt.k)
  IN RtStep("read", "written", r, "out", r.st.data)

\* BitSlice::new(out), advance(p), read(back, k)
RtReadBack ==
  LET r == BitSlice_read(Positioned("BitSlice", rt.out, rt.p), Zeroed(BytesFor(rt.k)), rt.k)
  IN RtStep("written", "done", r, "back", r.out)

InitRt ==
  /\ rt \in UNION {{[pc |-> "start", B |-> b, p |-> p, k |-> k, tmp |-> <<>>,
                     out |-> <<>>, back |-> <<>>, res |-> "Ok"] :
                      p \in {q \in 0..7 : q <= 8 * Len(b)},
                      k \in 0..(8 * Len(b))} : b \in SeqsUpTo(MaxBuf)}
  /\ rt.p + rt.k <= 8 * Len(rt.B)
  /\ cur = NewCursor("none", <<>>)
  /\ last = NoCall
  /\ ops = 0
  /\ wrap = NoWrap
  /\ wlast = NoWCall
  /\ hist = NoHist

NextRt ==
  \/ RtRead
  \/ RtWrite
  \/ RtReadBack

SpecRt == InitRt /\ [][NextRt]_vars

\* C1: the round trip completes without error or panic and the bits read
\* back are the k bits of B at position p.
C1_RoundTrip ==
  /\ rt.pc # "failed"
  /\ rt.pc = "done" => BufBits(rt.back, 0, rt.k) = BufBits(rt.B, rt.p, rt.k)

====
